---- MODULE Spec2Model ----
(***************************************************************************)
(* Model of the research agent service (astroAmber/src/main.py): the      *)
(* streaming entrypoint invoke() and the tool adapters it binds.          *)
(***************************************************************************)
EXTENDS Integers, Sequences, FiniteSets, TLC

\* ------------------------------------------------------------------ bounds
\* longest event stream handed out by stream_async
MaxEvents == 3
\* longest conversation history left in web_agent.messages
MaxMsgs == 3
\* longest event stream of each of two interleaved sessions
MaxTwoEvents == 2

\* ------------------------------------------------------- python sentinels
\* Python's None
NoneVal == "<None>"
\* a dict key that is not present
Absent == "<absent>"
\* an exception raised while evaluating an expression
Raised == "<raised>"

FormatTool == "format_research_response"

VARIABLES
    payload,      \* the payload argument of invoke()
    session_id,   \* getattr(context, 'session_id', 'default')
    stream,       \* the events web_agent.stream_async() hands out, in order
    messages,     \* web_agent.messages as the runtime leaves it
    pc,           \* where the generator invoke() is suspended
    pos,          \* number of events of stream fetched by the loop
    tools_used,   \* the local list tools_used
    notices,      \* every dict yielded so far, in order
    formatted_content, \* the local formatted_content
    tcall,        \* the tool adapter call made last: adapter, argument, provider
    tout,         \* what that call did: the text returned, or an exception
    args,         \* the parsed command line of an endpoint script
    plane,        \* what the control plane does when the script calls it
    cli_pc,       \* where the script stands
    api_calls,    \* the control-plane calls made so far
    printed,      \* the lines printed so far
    exit_code,    \* the exit status of the process, -1 while it runs
    other         \* the locals of a second session of invoke()

invokeVars == <<payload, session_id, stream, messages, pc, pos, tools_used, notices,
                formatted_content>>
adapterVars == <<tcall, tout>>
\* everything that is not a local of the session of invoke() modelled first
cliVars == <<args, plane, cli_pc, api_calls, printed, exit_code>>
outsideVars == <<tcall, tout, cliVars, other>>
vars == <<payload, session_id, stream, messages, pc, pos, tools_used, notices,
          formatted_content, tcall, tout,
          args, plane, cli_pc, api_calls, printed, exit_code, other>>

\* ---------------------------------------------------------------- payloads
\* the value of payload["query"] (or the bare string): t is its Python
\* type, v its value
QAbsent == [t |-> "absent", v |-> ""]
QNone == [t |-> "none", v |-> ""]
QStr(s) == [t |-> "str", v |-> s]

\* Python truthiness of a query value (`not research_prompt`)
Truthy(q) ==
    CASE q.t = "str" -> q.v # ""
      [] OTHER -> FALSE

DictPayloads ==
    {[form |-> "dict", query |-> q] :
        q \in {QAbsent, QNone, QStr(""), QStr("q")}}
StrPayloads == {[form |-> "str", query |-> QStr(s)] : s \in {"", "q"}}
OtherPayloads == {[form |-> "other", query |-> QAbsent]}
Payloads == DictPayloads \cup StrPayloads \cup OtherPayloads

\* ------------------------------------------------------------------ events
\* One event dict of the stream: data is the "data" value or Absent, tool is
\* the "name" of "current_tool_use" (NoName when that dict has no name,
\* Absent when the event has no "current_tool_use"), result tells whether
\* the key "result" is present.
NoName == "<noname>"
EventTools == {Absent, NoName, "web_search", "web_crawl"}
Events == [data : {Absent, "d"}, tool : EventTools, result : BOOLEAN]

RECURSIVE SeqsUpTo(_, _)
SeqsUpTo(S, n) ==
    IF n = 0 THEN {<<>>}
    ELSE LET shorter == SeqsUpTo(S, n - 1)
         IN  shorter \cup {Append(s, x) : s \in {t \in shorter : Len(t) = n - 1}, x \in S}

Streams == SeqsUpTo(Events, MaxEvents)

\* ----------------------------------------------------------------- history
\* content items of a message
TextItem(t) ==
    [kind |-> "text", text |-> t, id |-> Absent, name |-> Absent,
     status |-> Absent, payload |-> <<>>]
ToolUse(i, n) ==
    [kind |-> "toolUse", text |-> Absent, id |-> i, name |-> n,
     status |-> Absent, payload |-> <<>>]
\* payload is the toolResult's "content" list: the "text" of each item, or
\* Absent for an item without text
ToolResult(i, s, p) ==
    [kind |-> "toolResult", text |-> Absent, id |-> i, name |-> Absent,
     status |-> s, payload |-> p]
Msg(r, c) == [role |-> r, content |-> c]

AssistantMsgs ==
    {Msg("assistant", c) : c \in
        {<<TextItem("a")>>,
         <<ToolUse("t1", FormatTool)>>,
         <<ToolUse("t1", "web_search")>>,
         <<ToolUse("t2", FormatTool)>>,
         <<ToolUse("t1", FormatTool), TextItem("a")>>,
         <<>>}}
UserMsgs ==
    {Msg("user", c) : c \in
        {<<TextItem("u")>>,
         <<ToolResult("t1", "success", <<"p1">>)>>,
         <<ToolResult("t1", "success", <<"">>)>>,
         <<ToolResult("t1", "success", <<>>)>>,
         <<ToolResult("t2", "success", <<"p2">>)>>,
         <<ToolResult("t1", "error", <<"p1">>)>>,
         <<ToolResult("t1", "success", <<Absent, "p1">>)>>,
         <<ToolResult("t1", "success", <<"p1">>), ToolResult("t1", "success", <<"">>)>>,
         <<ToolResult("t1", "success", <<"p1">>), ToolResult("t1", "success", <<"p2">>)>>}}
MsgPool == AssistantMsgs \cup UserMsgs
Histories == SeqsUpTo(MsgPool, MaxMsgs)

\* a few histories for the runs that vary the stream
SmallHistories ==
    {<<>>,
     <<Msg("assistant", <<>>)>>,
     <<Msg("assistant", <<ToolUse("t1", FormatTool)>>),
       Msg("user", <<ToolResult("t1", "success", <<"p1">>)>>),
       Msg("assistant", <<TextItem("a")>>)>>}

\* ------------------------------------------------------------------ notices
Blank ==
    [status |-> Absent, message |-> Absent, content |-> Absent,
     tool |-> Absent, emoji |-> Absent, tool_count |-> -1,
     formatted_response |-> Absent, tools_used |-> <<>>,
     error |-> Absent, example |-> FALSE, session_id |-> Absent]

MissingQueryNotice ==
    [Blank EXCEPT !.error = "Missing 'query' field in payload", !.example = TRUE]
InvalidPayloadNotice ==
    [Blank EXCEPT !.error = "Invalid payload format", !.example = TRUE]
StartingNotice(sid) ==
    [Blank EXCEPT !.status = "starting", !.message = "Starting research", !.session_id = sid]
AgentCreatedNotice ==
    [Blank EXCEPT !.status = "agent_created", !.message = "Research agent initialized with web tools"]
ThinkingNotice(d) ==
    [Blank EXCEPT !.status = "thinking", !.content = d]
ToolNotice(n, e, k) ==
    [Blank EXCEPT !.status = "tool_execution", !.tool = n, !.emoji = e,
                  !.message = "Executing", !.tool_count = k]
CompletedNotice(resp, used, k, sid) ==
    [Blank EXCEPT !.status = "completed", !.formatted_response = resp,
                  !.tools_used = used, !.tool_count = k,
                  !.session_id = sid, !.message = "Research completed"]
ErrorNotice(cause) ==
    [Blank EXCEPT !.status = "error", !.error = cause,
                  !.message = "An error occurred during research"]

\* ------------------------------------------------------------- invoke()
Range(s) == {s[i] : i \in DOMAIN s}

\* variant: the check written as `research_prompt is None`
MissingQueryIsNone(q) == q.t \in {"absent", "none"}

\* `not research_prompt` on the value of payload.get("query")
MissingQuery(q) == ~Truthy(q)

\* the payload forms invoke() turns away before the starting notice
Rejected(p) ==
    \/ p.form = "dict" /\ MissingQuery(p.query)
    \/ p.form \notin {"dict", "str"}

\* `w in tool_name` for the words the emoji choice looks for
Contains(n, w) ==
    <<n, w>> \in {<<"web_search", "search">>, <<"web_crawl", "crawl">>,
                  <<"web_extract", "extract">>, <<FormatTool, "format">>}

Emoji(n) ==
    CASE Contains(n, "crawl") -> "spider"
      [] Contains(n, "search") -> "search"
      [] Contains(n, "format") -> "document"
      [] Contains(n, "extract") -> "page"
      [] OTHER -> "tool"

\* tool_info.get("name", "unknown")
ToolName(ev) == IF ev.tool = NoName THEN "unknown" ELSE ev.tool

\* variant: the name is compared with the last recorded one only
IsNewToolSinceLast(used, n) == used = <<>> \/ used[Len(used)] # n

\* `if tool_name not in tools_used`
IsNewTool(used, n) == n \notin Range(used)

\* the list tools_used after one event
RecordTool(used, ev) ==
    IF ev.tool # Absent /\ IsNewTool(used, ToolName(ev))
    THEN Append(used, ToolName(ev))
    ELSE used

\* variant: the count taken before the append
ToolCountBeforeAppend(used) == Len(used) - 1

\* "tool_count": len(tools_used)
ToolCount(used) == Len(used)

\* the notices one event makes the loop body yield, in order
EventNotices(used, ev) ==
    (IF ev.data # Absent THEN <<ThinkingNotice(ev.data)>> ELSE <<>>)
    \o (IF ev.tool # Absent /\ IsNewTool(used, ToolName(ev))
        THEN <<ToolNotice(ToolName(ev), Emoji(ToolName(ev)),
                          ToolCount(RecordTool(used, ev)))>>
        ELSE <<>>)

\* variant: the loop without its break
AfterEventNoBreak(ev) == "Streaming"

\* `if "result" in event: break`
AfterEvent(ev) == IF ev.result THEN "Finalizing" ELSE "Streaming"

\* ---- the scan of web_agent.messages
\* tool_result.get("content", [{}])[0].get("text", "")
PayloadText(p) ==
    IF p = <<>> THEN Raised
    ELSE IF p[1] = Absent THEN "" ELSE p[1]

\* variant: only the first toolUse that carries the id is looked at
MatchesFirstUse(msgs, id) ==
    LET uses == {ij \in UNION {{<<i, j>> : j \in DOMAIN msgs[i].content} : i \in DOMAIN msgs} :
                    /\ msgs[ij[1]].role = "assistant"
                    /\ msgs[ij[1]].content[ij[2]].kind = "toolUse"
                    /\ msgs[ij[1]].content[ij[2]].id = id}
    IN  \E a \in uses :
            /\ \A b \in uses : a[1] < b[1] \/ (a[1] = b[1] /\ a[2] <= b[2])
            /\ msgs[a[1]].content[a[2]].name = FormatTool
\* the inner loops: some toolUse of an assistant message carries this id
\* and the formatting tool's name
MatchesFormatUse(msgs, id) ==
    \E i \in DOMAIN msgs :
        /\ msgs[i].role = "assistant"
        /\ \E j \in DOMAIN msgs[i].content :
              LET u == msgs[i].content[j]
              IN  u.kind = "toolUse" /\ u.id = id /\ u.name = FormatTool

\* one content item of a user message, given formatted_content so far
ScanItem(msgs, item, fc) ==
    IF fc = Raised THEN Raised
    ELSE IF /\ item.kind = "toolResult"
            /\ item.status = "success"
            /\ MatchesFormatUse(msgs, item.id)
         THEN PayloadText(item.payload)
         ELSE fc

RECURSIVE ScanContent(_, _, _, _)
ScanContent(msgs, c, j, fc) ==
    IF j > Len(c) THEN fc
    ELSE ScanContent(msgs, c, j + 1, ScanItem(msgs, c[j], fc))

RECURSIVE ScanMessages(_, _, _)
ScanMessages(msgs, i, fc) ==
    IF i > Len(msgs) THEN fc
    ELSE ScanMessages(msgs, i + 1,
            IF msgs[i].role = "user"
            THEN ScanContent(msgs, msgs[i].content, 1, fc)
            ELSE fc)

\* formatted_content after the scan (NoneVal when nothing was found)
FormattedContent(msgs) == ScanMessages(msgs, 1, NoneVal)

\* web_agent.messages[-1].get("content", [{}])[0].get("text", "")
FinalResponse(msgs) ==
    IF msgs = <<>> THEN ""
    ELSE LET c == msgs[Len(msgs)].content
         IN  IF c = <<>> THEN Raised
             ELSE IF c[1].kind = "text" THEN c[1].text ELSE ""

\* `formatted_content or final_response`
Resolve(fc, fr) == IF fc \notin {NoneVal, ""} THEN fc ELSE fr

\* variant: the completed notice is yielded before final_response is
\* evaluated, so a failure there adds an error notice after it
FinalizationLateFailure(msgs, used, sid) ==
    IF FormattedContent(msgs) = Raised
    THEN <<ErrorNotice("list index out of range")>>
    ELSE IF FinalResponse(msgs) = Raised
         THEN <<CompletedNotice(FormattedContent(msgs), used, ToolCount(used), sid),
                ErrorNotice("list index out of range")>>
         ELSE <<CompletedNotice(Resolve(FormattedContent(msgs), FinalResponse(msgs)),
                                used, ToolCount(used), sid)>>

\* what the generator yields between the end of the loop and its return
Finalization(msgs, used, sid) ==
    IF FormattedContent(msgs) = Raised \/ FinalResponse(msgs) = Raised
    THEN <<ErrorNotice("list index out of range")>>
    ELSE <<CompletedNotice(Resolve(FormattedContent(msgs), FinalResponse(msgs)),
                           used, ToolCount(used), sid)>>

\* ---- the steps of the generator
\* the payload is turned away: one error-shaped notice, then return
Reject ==
    /\ pc = "Idle"
    /\ Rejected(payload)
    /\ notices' = Append(notices,
                    IF payload.form = "dict" THEN MissingQueryNotice
                    ELSE InvalidPayloadNotice)
    /\ pc' = "Returned"
    /\ UNCHANGED <<payload, session_id, stream, messages, pos, tools_used>>
    /\ UNCHANGED formatted_content
    /\ UNCHANGED outsideVars

\* the payload is accepted: the starting notice
Start ==
    /\ pc = "Idle"
    /\ ~Rejected(payload)
    /\ notices' = Append(notices, StartingNotice(session_id))
    /\ pc' = "Starting"
    /\ UNCHANGED <<payload, session_id, stream, messages, pos, tools_used>>
    /\ UNCHANGED formatted_content
    /\ UNCHANGED outsideVars

\* Agent(...) is built and the agent_created notice yielded
CreateAgent ==
    /\ pc = "Starting"
    /\ notices' = Append(notices, AgentCreatedNotice)
    /\ pc' = "AgentReady"
    /\ UNCHANGED <<payload, session_id, stream, messages, pos, tools_used>>
    /\ UNCHANGED formatted_content
    /\ UNCHANGED outsideVars

\* Agent(...) or load_model() raises: nothing encloses the call, the
\* exception leaves the generator
CreateAgentFails ==
    /\ pc = "Starting"
    /\ pc' = "Escaped"
    /\ UNCHANGED <<payload, session_id, stream, messages, pos, tools_used, notices>>
    /\ UNCHANGED formatted_content
    /\ UNCHANGED outsideVars

\* the generator is resumed after agent_created: the locals are set and
\* the loop waits for the first event
BeginStream ==
    /\ pc = "AgentReady"
    /\ tools_used' = <<>>
    /\ pc' = "Streaming"
    /\ UNCHANGED <<payload, session_id, stream, messages, pos, notices>>
    /\ UNCHANGED formatted_content
    /\ UNCHANGED outsideVars

\* one pass of the loop body over the next event
ConsumeEvent ==
    /\ pc = "Streaming"
    /\ pos < Len(stream)
    /\ LET ev == stream[pos + 1]
       IN  /\ notices' = notices \o EventNotices(tools_used, ev)
           /\ tools_used' = RecordTool(tools_used, ev)
           /\ pc' = AfterEvent(ev)
    /\ pos' = pos + 1
    /\ UNCHANGED <<payload, session_id, stream, messages>>
    /\ UNCHANGED formatted_content
    /\ UNCHANGED outsideVars

\* the stream is exhausted: the loop ends
StreamEnds ==
    /\ pc = "Streaming"
    /\ pos = Len(stream)
    /\ pc' = "Finalizing"
    /\ UNCHANGED <<payload, session_id, stream, messages, pos, tools_used, notices>>
    /\ UNCHANGED formatted_content
    /\ UNCHANGED outsideVars

\* stream_async raises while the loop waits for an event
StreamRaises ==
    /\ pc = "Streaming"
    /\ notices' = Append(notices, ErrorNotice("stream failure"))
    /\ pc' = "Failed"
    /\ UNCHANGED <<payload, session_id, stream, messages, pos, tools_used>>
    /\ UNCHANGED formatted_content
    /\ UNCHANGED outsideVars

\* variant: the scan and the terminal notice do not wait for the loop
FinalizeInLoop ==
    /\ pc \in {"Streaming", "Finalizing"}
    /\ notices' = notices \o Finalization(messages, tools_used, session_id)
    /\ pc' = IF notices'[Len(notices')].status = "completed"
             THEN "Completed" ELSE "Failed"
    /\ formatted_content' = IF FormattedContent(messages) = Raised
                            THEN formatted_content
                            ELSE FormattedContent(messages)
    /\ UNCHANGED <<payload, session_id, stream, messages, pos, tools_used>>
    /\ UNCHANGED outsideVars

\* the scan of the history and the terminal notice
Finalize ==
    /\ pc = "Finalizing"
    /\ notices' = notices \o Finalization(messages, tools_used, session_id)
    /\ pc' = IF notices'[Len(notices')].status = "completed"
             THEN "Completed" ELSE "Failed"
    /\ formatted_content' = IF FormattedContent(messages) = Raised
                            THEN formatted_content
                            ELSE FormattedContent(messages)
    /\ UNCHANGED <<payload, session_id, stream, messages, pos, tools_used>>
    /\ UNCHANGED outsideVars

Next ==
    \/ Reject
    \/ Start
    \/ CreateAgent
    \/ CreateAgentFails
    \/ BeginStream
    \/ ConsumeEvent
    \/ StreamEnds
    \/ StreamRaises
    \/ Finalize

\* no tool adapter call has been made
NoCall == [tool |-> "none"]
NoOut == [kind |-> "none", text |-> <<>>]

\* no endpoint script has been started
NoArgs == [script |-> "none"]
NoPlane == [client |-> "none"]
CliIdle ==
    /\ args = NoArgs
    /\ plane = NoPlane
    /\ cli_pc = "NotStarted"
    /\ api_calls = <<>>
    /\ printed = <<>>
    /\ exit_code = -1
\* no second session of invoke() is open
NoSession == [pc |-> "None"]

InitLocals ==
    /\ tcall = NoCall
    /\ tout = NoOut
    /\ CliIdle
    /\ other = NoSession
    /\ session_id \in {"default"}
    /\ pc = "Idle"
    /\ pos = 0
    /\ tools_used = <<>>
    /\ notices = <<>>
    /\ formatted_content = NoneVal

\* sessions that vary the event stream
Init ==
    /\ payload \in Payloads
    /\ stream \in Streams
    /\ messages \in SmallHistories
    /\ InitLocals

Spec == Init /\ [][Next]_vars

\* sessions that vary the conversation history
ScanStreams ==
    {<<>>, <<[data |-> "d", tool |-> FormatTool, result |-> TRUE]>>}
ScanPayloads ==
    {[form |-> "dict", query |-> QStr("q")], [form |-> "dict", query |-> QStr("")]}

InitScan ==
    /\ payload \in ScanPayloads
    /\ stream \in ScanStreams
    /\ messages \in Histories
    /\ InitLocals

SpecScan == InitScan /\ [][Next]_vars

\* ------------------------------------------------------------ properties
\* indices of the consumed events that carry "current_tool_use" for name n
Occurrences(n) ==
    {i \in 1..pos : stream[i].tool # Absent /\ ToolName(stream[i]) = n}
ConsumedNames ==
    {ToolName(stream[i]) : i \in {j \in 1..pos : stream[j].tool # Absent}}
RepeatedNames == {n \in ConsumedNames : Cardinality(Occurrences(n)) >= 2}
Min(S) == CHOOSE x \in S : \A y \in S : x <= y
NoticesWith(st) == {i \in DOMAIN notices : notices[i].status = st}
ToolNoticesFor(n) == {i \in NoticesWith("tool_execution") : notices[i].tool = n}
DataEventsUpTo(k) == {i \in 1..k : stream[i].data # Absent}
LastNotice == notices[Len(notices)]

\* C1: a tool name carried by two or more consumed current_tool_use events
\* is in tools_used exactly once, and exactly one tool_execution notice
\* names it, yielded while the event of its first occurrence is processed
\* (after the thinking notices of the events up to that one, before any
\* later one).
C1_DedupOnce ==
    \A n \in RepeatedNames :
        /\ Cardinality({i \in DOMAIN tools_used : tools_used[i] = n}) = 1
        /\ Cardinality(ToolNoticesFor(n)) = 1
        /\ \A k \in ToolNoticesFor(n) :
              Cardinality({i \in NoticesWith("thinking") : i < k})
                  = Cardinality(DataEventsUpTo(Min(Occurrences(n))))

C1_Witness ==
    /\ pc = "Completed"
    /\ "web_search" \in RepeatedNames
    /\ Len(tools_used) >= 2

\* C5: a completed or error notice (or the error-shaped notice of a payload
\* that was turned away) is the last notice of its session: there is at
\* most one of them, never a completed together with an error, and nothing
\* is yielded after it.
Terminal(n) == n.status \in {"completed", "error"} \/ n.error # Absent
C5_OneTerminalLast ==
    \A i \in DOMAIN notices : Terminal(notices[i]) => i = Len(notices)

\* C5 (the same, on steps): once the last notice is terminal the sequence
\* of notices never changes again.
C5_NothingAfterTerminal ==
    [][(notices # <<>> /\ Terminal(LastNotice)) => notices' = notices]_vars

C5_Witness ==
    /\ pc = "Failed"
    /\ notices # <<>>
    /\ LastNotice.status = "error"
    /\ NoticesWith("tool_execution") # {}
    /\ NoticesWith("completed") = {}

\* C6: a dict payload whose query is absent, null or empty yields nothing
\* but the one error-shaped notice with the example payload; the generator
\* then has returned, and no agent is constructed.
QueryMissing ==
    payload.form = "dict" /\ payload.query \in {QAbsent, QNone, QStr("")}
C6_MissingQueryOnly ==
    QueryMissing =>
        \/ pc = "Idle" /\ notices = <<>>
        \/ /\ pc = "Returned"
           /\ notices = <<MissingQueryNotice>>
           /\ notices[1].example /\ notices[1].status = Absent

C6_Witness ==
    /\ payload = [form |-> "dict", query |-> QStr("")]
    /\ pc = "Returned"
    /\ Len(notices) = 1

\* C8: the loop stops at the first consumed event that carries a result:
\* no event after it is fetched, so every thinking notice and every entry
\* of tools_used stems from an event up to and including that one.
ResultIdx == {i \in DOMAIN stream : stream[i].result}
LoopEnd == IF ResultIdx = {} THEN Len(stream) ELSE Min(ResultIdx)
C8_StopAtFirstResult ==
    /\ pos <= LoopEnd
    /\ Cardinality(NoticesWith("thinking")) <= Cardinality(DataEventsUpTo(LoopEnd))
    /\ \A n \in Range(tools_used) :
          \E i \in 1..LoopEnd : stream[i].tool # Absent /\ ToolName(stream[i]) = n
    /\ \A k \in NoticesWith("tool_execution") :
          \E i \in 1..LoopEnd :
              stream[i].tool # Absent /\ ToolName(stream[i]) = notices[k].tool

C8_Witness ==
    /\ pc = "Completed"
    /\ ResultIdx # {}
    /\ pos = LoopEnd
    /\ \E i \in DOMAIN stream :
          /\ i > LoopEnd
          /\ stream[i].data # Absent
          /\ stream[i].tool # Absent
          /\ ToolName(stream[i]) \notin Range(tools_used)

\* C10: the k-th tool_execution notice of a session carries tool_count k,
\* which is the number of distinct tool names notified up to it, and the
\* completed notice carries the length of the ledger it reports.
C10_ToolCount ==
    \A i \in DOMAIN notices :
        /\ notices[i].status = "tool_execution" =>
              /\ notices[i].tool_count
                    = Cardinality({j \in NoticesWith("tool_execution") : j <= i})
              /\ notices[i].tool_count
                    = Cardinality({notices[j].tool :
                                     j \in {m \in NoticesWith("tool_execution") : m <= i}})
        /\ notices[i].status = "completed" =>
              /\ notices[i].tool_count = Len(notices[i].tools_used)
              /\ notices[i].tools_used = tools_used

C10_Witness ==
    /\ pc = "Completed"
    /\ Len(tools_used) >= 2
    /\ LastNotice.tool_count = 2

\* positions <<i, j>> of the successful toolResults of user messages whose
\* toolUseId is that of a toolUse named format_research_response
FormatResultPos ==
    {ij \in UNION {{<<i, j>> : j \in DOMAIN messages[i].content} : i \in DOMAIN messages} :
        /\ messages[ij[1]].role = "user"
        /\ LET r == messages[ij[1]].content[ij[2]]
           IN  /\ r.kind = "toolResult"
               /\ r.status = "success"
               /\ \E k \in DOMAIN messages :
                     \E l \in DOMAIN messages[k].content :
                         /\ messages[k].content[l].kind = "toolUse"
                         /\ messages[k].content[l].id = r.id
                         /\ messages[k].content[l].name = FormatTool}
ItemAt(ij) == messages[ij[1]].content[ij[2]]

\* C2: in a completed session whose history holds one successful result of
\* the formatting tool, formatted_response is that result's payload text,
\* whatever the text (the empty text included).
C2_AnswerIsFormatPayload ==
    pc = "Completed" =>
        \A ij \in FormatResultPos :
            (/\ Cardinality(FormatResultPos) = 1
             /\ Len(ItemAt(ij).payload) = 1
             /\ ItemAt(ij).payload[1] # Absent)
            => LastNotice.formatted_response = ItemAt(ij).payload[1]

\* the text a message carries: that of its text item, wherever it stands
\* among the content items ("" when there is none)
MessageText(m) ==
    IF \E j \in DOMAIN m.content : m.content[j].kind = "text"
    THEN m.content[Min({j \in DOMAIN m.content : m.content[j].kind = "text"})].text
    ELSE ""

\* C3: in a completed session whose history holds no successful result of
\* the formatting tool, formatted_response is the text of the last message,
\* whatever its role and wherever its text item stands.
C3_AnswerIsLastMessageText ==
    (pc = "Completed" /\ FormatResultPos = {} /\ messages # <<>>)
        => LastNotice.formatted_response = MessageText(messages[Len(messages)])

\* C4: a failure in any phase after the starting notice ends the session
\* with an error notice; no exception leaves the generator.
C4_FailureYieldsError ==
    pc \in {"Failed", "Escaped"} => (notices # <<>> /\ LastNotice.status = "error")

\* C7: a starting notice is yielded only when the query is a non-empty
\* string, in the dict form and in the bare-string form alike; an empty
\* query in either form yields the missing-query notice and nothing else.
C7_StartingOnlyNonEmpty ==
    /\ NoticesWith("starting") # {} =>
          (payload.query.t = "str" /\ payload.query.v # "")
    /\ (payload.query = QStr("") /\ pc # "Idle") => notices = <<MissingQueryNotice>>

\* ------------------------------------------------------------------ strings
\* A Python string is the sequence of its characters. A value that may be
\* missing or None is such a sequence or one of two sentinels.
AbsentS == <<Absent>>
NoneS == <<NoneVal>>
HTTP == <<"h", "t", "t", "p", ":", "/", "/">>
HTTPS == <<"h", "t", "t", "p", "s", ":", "/", "/">>
\* the text '"url":'
UrlKey == <<"\"", "u", "r", "l", "\"", ":">>
\* the text '"url"'
UrlName == <<"\"", "u", "r", "l", "\"">>

IsString(v) == v \notin {AbsentS, NoneS}
IsSpace(c) == c \in {" ", "\t", "\n", "\r"}

\* str.startswith
StartsWith(s, p) == Len(s) >= Len(p) /\ SubSeq(s, 1, Len(p)) = p

\* `p in s`
HasSub(s, p) ==
    \E i \in 1..(Len(s) - Len(p) + 1) : SubSeq(s, i, i + Len(p) - 1) = p

\* str.strip()
Strip(s) ==
    LET keep == {i \in DOMAIN s : ~IsSpace(s[i])}
    IN  IF keep = {} THEN <<>>
        ELSE SubSeq(s, CHOOSE i \in keep : \A j \in keep : i <= j,
                       CHOOSE i \in keep : \A j \in keep : i >= j)

\* the first index at or after k that holds no whitespace (Len(s) + 1 when
\* there is none): where \s* stops
SkipSpace(s, k) ==
    LET stop == {i \in k..Len(s) : ~IsSpace(s[i])}
    IN  IF stop = {} THEN Len(s) + 1 ELSE CHOOSE i \in stop : \A j \in stop : i <= j

\* re.search(r'"url"\s*:\s*"([^"]+)"', s) tried at start index i: the
\* index pair <<first, last>> of group 1, or <<0, 0>> when there is no
\* match at i
UrlMatchAt(s, i) ==
    IF ~(i + 4 <= Len(s) /\ SubSeq(s, i, i + 4) = UrlName) THEN <<0, 0>>
    ELSE LET c == SkipSpace(s, i + 5)
         IN  IF ~(c <= Len(s) /\ s[c] = ":") THEN <<0, 0>>
             ELSE LET q == SkipSpace(s, c + 1)
                  IN  IF ~(q <= Len(s) /\ s[q] = "\"") THEN <<0, 0>>
                      ELSE LET close == {e \in (q + 1)..Len(s) : s[e] = "\""}
                           IN  IF close = {} THEN <<0, 0>>
                               ELSE LET e == CHOOSE x \in close : \A y \in close : x <= y
                                    IN  IF e = q + 1 THEN <<0, 0>> ELSE <<q + 1, e - 1>>

\* m.group(1) of the leftmost match, or NoneS when re.search finds nothing
UrlSearch(s) ==
    LET hits == {i \in DOMAIN s : UrlMatchAt(s, i) # <<0, 0>>}
    IN  IF hits = {} THEN NoneS
        ELSE LET i == CHOOSE x \in hits : \A y \in hits : x <= y
             IN  SubSeq(s, UrlMatchAt(s, i)[1], UrlMatchAt(s, i)[2])

\* the unwrapping of a JSON fragment
Unwrap(url) ==
    IF StartsWith(Strip(url), <<"{">>) /\ HasSub(url, UrlKey) /\ UrlSearch(url) # NoneS
    THEN UrlSearch(url)
    ELSE url

\* `if not url.startswith(("http://", "https://")): url = "https://" + url`
AddScheme(url) ==
    IF StartsWith(url, HTTP) \/ StartsWith(url, HTTPS) THEN url ELSE HTTPS \o url

\* the URL an adapter hands to the provider for one URL string
NormalizeUrl(url) == AddScheme(Unwrap(url))

\* -------------------------------------------------------------- formatters
\* truncation thresholds of the extract and the crawl formatter
ExtractLimit == 5000
CrawlLimit == 4000
\* images listed by the extract formatter
ImagesShown == 3

\* Formatted text is the sequence of the pieces an f-string puts together:
\* literal text, an interpolated string, an interpolated number.
Lit(t) == [k |-> "lit", lit |-> t, txt |-> <<>>, num |-> 0]
Txt(t) == [k |-> "txt", lit |-> "", txt |-> t, num |-> 0]
Num(n) == [k |-> "num", lit |-> "", txt |-> <<>>, num |-> n]
\* f"{v}" of a string or of None
Show(v) == IF v = NoneS THEN Lit("None") ELSE Txt(v)

\* what a call gives back: a text, or an exception that leaves it
Text(t) == [kind |-> "text", text |-> t]
Raise == [kind |-> "raised", text |-> <<>>]

\* Python truthiness of a value that is a string, None or missing
TruthyS(v) == IsString(v) /\ v # <<>>

\* doc.get(key, default) on a field that may be missing
GetOr(v, default) == IF v = AbsentS THEN default ELSE v

\* a text of n characters
Chars(n) == [i \in 1..n |-> "x"]

\* one document of a provider response; images is doc.get("images", [])
Doc(t, u, r, c, im) ==
    [title |-> t, url |-> u, raw_content |-> r, content |-> c, images |-> im]

\* A provider response. t is its Python type ("none", "dict", "list");
\* results is the "results" value of a dict (or the list itself):
\* s tells whether the key is missing, None or a list, l is the list.
Results(l) == [s |-> "list", l |-> l]
ResultsAbsent == [s |-> "absent", l |-> <<>>]
ResultsNone == [s |-> "none", l |-> <<>>]
\* failed is "failed_results" (a missing key reads as []), time is
\* "response_time" (-1 for a missing key, which reads as 0)
Response(t, r, f, rt) ==
    [t |-> t, results |-> r, failed |-> f, time |-> rt]
NoneResponse == Response("none", ResultsAbsent, <<>>, 0)
EmptyDict == Response("dict", ResultsAbsent, <<>>, -1)
\* `not tavily_result` for a response
Falsy(resp) ==
    \/ resp.t = "none"
    \/ resp = EmptyDict
    \/ resp.t = "list" /\ resp.results.l = <<>>

RECURSIVE Flatten(_)
Flatten(ss) == IF ss = <<>> THEN <<>> ELSE Head(ss) \o Flatten(Tail(ss))

\* sep.join(parts) for parts that are piece sequences
RECURSIVE Join(_, _)
Join(sep, parts) ==
    IF parts = <<>> THEN <<>>
    ELSE IF Len(parts) = 1 THEN parts[1]
    ELSE parts[1] \o <<Lit(sep)>> \o Join(sep, Tail(parts))

\* ---- format_search_results_for_agent
\* doc.get("content", "").strip() raises on None
SearchDocRaises(doc) ==
    ~(TruthyS(doc.raw_content) /\ Strip(doc.raw_content) # <<>>)
        /\ doc.content = NoneS

SearchDoc(doc, i) ==
    <<Lit("\nRESULT "), Num(i), Lit(":\n"),
      Lit("Title: "), Show(GetOr(doc.title, <<"N", "o", " ", "t", "i", "t", "l", "e">>)), Lit("\n"),
      Lit("URL: "), Show(GetOr(doc.url, <<"N", "o", " ", "U", "R", "L">>)), Lit("\n")>>
    \o (IF TruthyS(doc.raw_content) /\ Strip(doc.raw_content) # <<>>
        THEN <<Lit("Raw Content: "), Txt(Strip(doc.raw_content)), Lit("\n")>>
        ELSE <<Lit("Content: "), Txt(Strip(GetOr(doc.content, <<>>))), Lit("\n")>>)

\* variant: an empty results list is not tested for
FormatSearchNoEmptyTest(resp) ==
    IF Falsy(resp) \/ resp.t = "list" \/ resp.results.s # "list"
    THEN Text(<<Lit("No search results found.")>>)
    ELSE LET docs == resp.results.l
         IN  IF \E i \in DOMAIN docs : SearchDocRaises(docs[i]) THEN Raise
             ELSE Text(<<Lit("\n")>>
                       \o Join("\n", [i \in DOMAIN docs |-> SearchDoc(docs[i], i)]))
FormatSearch(resp) ==
    IF Falsy(resp) \/ resp.t = "list" \/ resp.results.s # "list" \/ resp.results.l = <<>>
    THEN Text(<<Lit("No search results found.")>>)
    ELSE LET docs == resp.results.l
         IN  IF \E i \in DOMAIN docs : SearchDocRaises(docs[i]) THEN Raise
             ELSE Text(<<Lit("\n")>>
                       \o Join("\n", [i \in DOMAIN docs |-> SearchDoc(docs[i], i)]))

\* ---- format_extract_results_for_agent
\* variant: a text of exactly limit characters is cut as well
TruncatedAtLimit(raw, limit) ==
    IF Len(raw) >= limit
    THEN <<Txt(SubSeq(raw, 1, limit)), Lit("...")>>
    ELSE <<Txt(raw)>>
\* raw_content[:limit] with "..." when the text is longer
Truncated(raw, limit) ==
    IF Len(raw) > limit
    THEN <<Txt(SubSeq(raw, 1, limit)), Lit("...")>>
    ELSE <<Txt(raw)>>

ImageLine(images, j) == <<Lit("  Image "), Num(j), Lit(": "), Show(images[j]), Lit("\n")>>

ExtractImages(images) ==
    IF images = <<>> THEN <<>>
    ELSE <<Lit("Images found: "), Num(Len(images)), Lit(" images\n")>>
         \o Flatten([j \in 1..(IF Len(images) < ImagesShown THEN Len(images) ELSE ImagesShown)
                        |-> ImageLine(images, j)])
         \o (IF Len(images) > ImagesShown
             THEN <<Lit("  ... and "), Num(Len(images) - ImagesShown), Lit(" more images\n")>>
             ELSE <<>>)

ExtractDoc(doc, i) ==
    <<Lit("\nEXTRACT RESULT "), Num(i), Lit(":\n"),
      Lit("URL: "), Show(GetOr(doc.url, <<"N", "o", " ", "U", "R", "L">>)), Lit("\n")>>
    \o (IF TruthyS(GetOr(doc.raw_content, <<>>))
        THEN <<Lit("Content: ")>> \o Truncated(doc.raw_content, ExtractLimit) \o <<Lit("\n")>>
        ELSE <<Lit("Content: No content extracted\n")>>)
    \o ExtractImages(doc.images)

\* one entry of failed_results: its url and error
FailedLine(f, i) ==
    <<Lit("Failed "), Num(i), Lit(": "),
      Show(GetOr(f.url, <<"U", "n", "k", "n", "o", "w", "n", " ", "U", "R", "L">>)), Lit(" - "),
      Show(GetOr(f.error, <<"U", "n", "k", "n", "o", "w", "n", " ", "e", "r", "r", "o", "r">>)),
      Lit("\n")>>

ExtractFailed(failed) ==
    IF failed = <<>> THEN <<>>
    ELSE <<Lit("\nFAILED EXTRACTIONS:\n")>>
         \o Flatten([i \in DOMAIN failed |-> FailedLine(failed[i], i)])

FormatExtract(resp) ==
    IF Falsy(resp) \/ resp.t = "list" \/ resp.results.s = "absent"
    THEN Text(<<Lit("No extract results found.")>>)
    ELSE IF resp.results.s = "none" THEN Raise
    ELSE LET docs == resp.results.l
         IN  Text(<<Lit("\n")>>
                  \o Flatten([i \in DOMAIN docs |-> ExtractDoc(docs[i], i)])
                  \o ExtractFailed(resp.failed)
                  \o <<Lit("\nResponse time: "),
                       Num(IF resp.time < 0 THEN 0 ELSE resp.time), Lit(" seconds")>>)

\* ---- format_crawl_results_for_agent
\* raw_content.split("\n")[0]
FirstLine(raw) ==
    LET nl == {i \in DOMAIN raw : raw[i] = "\n"}
    IN  IF nl = {} THEN raw
        ELSE SubSeq(raw, 1, (CHOOSE i \in nl : \A j \in nl : i <= j) - 1)

CrawlDoc(doc, i) ==
    <<Lit("\nRESULT "), Num(i), Lit(":\n"),
      Lit("URL: "), Show(GetOr(doc.url, <<"N", "o", " ", "U", "R", "L">>)), Lit("\n")>>
    \o (IF TruthyS(GetOr(doc.raw_content, <<>>))
        THEN <<Lit("Title: "), Txt(FirstLine(doc.raw_content)), Lit("\n"), Lit("Content: ")>>
             \o Truncated(doc.raw_content, CrawlLimit) \o <<Lit("\n")>>
        ELSE <<>>)

\* the argument is the list of documents, or None
FormatCrawl(results) ==
    IF results.s # "list" \/ results.l = <<>>
    THEN Text(<<Lit("No crawl results found.")>>)
    ELSE LET docs == results.l
         IN  Text(<<Lit("\n"), Lit("----------------------------------------")>>
                  \o Join("\n", [i \in DOMAIN docs |-> CrawlDoc(docs[i], i)]))

\* ------------------------------------------------------------ tool adapters
\* an argument the runtime passes to an adapter: a string, None, or a list
StrArg(t) == [t |-> "str", s |-> t, l |-> <<>>]
NoneArg == [t |-> "none", s |-> <<>>, l |-> <<>>]
ListArg(l) == [t |-> "list", s |-> <<>>, l |-> l]

\* the provider's side of one call: it raises, or returns resp
Provider(r, resp) == [raises |-> r, resp |-> resp]

\* f"{e}" of the exception caught
Cause == Lit("<exception text>")

\* f"{urls}" of an argument
RECURSIVE ShowArgs(_)
ShowArgs(l) ==
    IF l = <<>> THEN <<>>
    ELSE (IF l[1].t = "str" THEN <<Lit("'"), Txt(l[1].s), Lit("'")>> ELSE <<Lit("None")>>)
         \o (IF Len(l) > 1 THEN <<Lit(", ")>> ELSE <<>>)
         \o ShowArgs(Tail(l))
ShowArg(a) ==
    CASE a.t = "str" -> <<Txt(a.s)>>
      [] a.t = "none" -> <<Lit("None")>>
      [] OTHER -> <<Lit("[")>> \o ShowArgs(a.l) \o <<Lit("]")>>

\* the outcome of a call: what the provider was handed (<<>> when it was
\* not reached) and what the adapter gave back
Outcome(sent, out) == [sent |-> sent, out |-> out]

\* web_search: nothing encloses the provider call or the formatter
WebSearch(query, prov) ==
    IF prov.raises THEN Outcome(<<>>, Raise)
    ELSE Outcome(<<query.s>>, FormatSearch(prov.resp))

\* web_extract: the whole body is inside try/except
ExtractError(urls) ==
    Text(<<Lit("Error during extraction: "), Cause, Lit("\nURLs attempted: ")>>
         \o ShowArg(urls) \o <<Lit("\nFailed to extract content.")>>)

\* urls_list: a string is wrapped into a list
UrlsList(urls) == IF urls.t = "str" THEN <<urls>> ELSE urls.l

\* iterating None, or url.strip() on an element that is no string, raises
CleaningRaises(urls) ==
    \/ urls.t = "none"
    \/ \E i \in DOMAIN UrlsList(urls) : UrlsList(urls)[i].t # "str"

CleanedUrls(urls) ==
    [i \in DOMAIN UrlsList(urls) |-> NormalizeUrl(UrlsList(urls)[i].s)]

WebExtract(urls, prov) ==
    IF CleaningRaises(urls) THEN Outcome(<<>>, ExtractError(urls))
    ELSE IF prov.raises \/ FormatExtract(prov.resp) = Raise
         THEN Outcome(CleanedUrls(urls), ExtractError(urls))
         ELSE Outcome(CleanedUrls(urls), FormatExtract(prov.resp))

\* web_crawl: the URL is cleaned before the try block is entered
CrawlError(url) ==
    Text(<<Lit("Error: "), Cause, Lit("\n"), Lit("URL attempted: "), Txt(url),
           Lit("\n"), Lit("Failed to crawl the website.")>>)

\* api_response.get("results") if isinstance(api_response, dict) else api_response
CrawlResults(resp) ==
    CASE resp.t = "dict" ->
            IF resp.results.s = "list" THEN resp.results ELSE ResultsNone
      [] resp.t = "list" -> resp.results
      [] OTHER -> ResultsNone

WebCrawl(url, prov) ==
    IF url.t # "str" THEN Outcome(<<>>, Raise)
    ELSE IF prov.raises
         THEN Outcome(<<NormalizeUrl(url.s)>>, CrawlError(NormalizeUrl(url.s)))
         ELSE Outcome(<<NormalizeUrl(url.s)>>, FormatCrawl(CrawlResults(prov.resp)))

\* ---- the inputs of the adapter runs
JsonUrl(sp1, sp2, val) ==
    <<"{">> \o UrlName \o sp1 \o <<":">> \o sp2 \o <<"\"">> \o val \o <<"\"", "}">>
UrlTexts ==
    {<<"a", ".", "b">>, HTTP \o <<"a">>, HTTPS \o <<"a">>, <<>>, <<" ", "a">>,
     <<"h", "t", "t", "p">>,
     JsonUrl(<<>>, <<" ">>, <<"a", ".", "b">>),
     JsonUrl(<<>>, <<>>, HTTP \o <<"a">>),
     JsonUrl(<<" ">>, <<>>, <<"a">>),
     JsonUrl(<<>>, <<>>, <<>>),
     <<" ">> \o JsonUrl(<<>>, <<>>, <<"a">>)}
UrlArgs == {StrArg(u) : u \in UrlTexts} \cup {NoneArg}
UrlsArgs ==
    UrlArgs \cup {ListArg(<<>>),
                  ListArg(<<StrArg(<<"a">>), StrArg(HTTP \o <<"b">>)>>),
                  ListArg(<<StrArg(<<"a">>), NoneArg>>)}
Queries == {StrArg(<<"q">>), StrArg(<<>>)}

SearchDocs ==
    {Doc(<<"T">>, <<"u">>, <<" ", "r", " ">>, <<"c">>, <<>>),
     Doc(<<"T">>, <<"u">>, <<" ", "\n">>, <<" ", "c">>, <<>>),
     Doc(AbsentS, AbsentS, AbsentS, AbsentS, <<>>),
     Doc(NoneS, <<"u">>, NoneS, NoneS, <<>>)}
ContentDocs ==
    {Doc(AbsentS, <<"u">>, r, AbsentS, <<>>) :
        r \in {AbsentS, NoneS, <<>>, <<"t", "\n", "b">>,
               Chars(CrawlLimit), Chars(CrawlLimit + 1),
               Chars(ExtractLimit), Chars(ExtractLimit + 1)}}
    \cup {Doc(AbsentS, AbsentS, <<"r">>, AbsentS, im) :
            im \in {<<<<"i">>>>, [j \in 1..ImagesShown |-> <<"i">>],
                    [j \in 1..(ImagesShown + 1) |-> <<"i">>]}}
Failure(u, e) == [url |-> u, error |-> e]

ShapeResponses ==
    {NoneResponse, EmptyDict,
     Response("dict", ResultsAbsent, <<>>, 1),
     Response("dict", ResultsNone, <<>>, 1),
     Response("dict", Results(<<>>), <<>>, 1),
     Response("dict", Results(<<>>), <<Failure(<<"u">>, <<"e">>), Failure(AbsentS, AbsentS)>>, -1),
     Response("list", Results(<<>>), <<>>, -1)}
SearchResponses ==
    ShapeResponses
    \cup {Response("dict", Results(<<d>>), <<>>, 1) : d \in SearchDocs}
    \cup {Response("dict", Results(<<d, e>>), <<>>, 1) :
            d \in SearchDocs, e \in SearchDocs}
ContentResponses ==
    ShapeResponses
    \cup {Response(t, Results(<<d>>), <<>>, 1) : t \in {"dict", "list"}, d \in ContentDocs}
    \cup {Response("dict", Results(<<d, d>>), <<>>, 1) : d \in ContentDocs}

Providers(resps) ==
    {Provider(TRUE, NoneResponse)} \cup {Provider(FALSE, r) : r \in resps}

\* the calls the runtime may make: adapter, argument, provider behaviour
Call(tool, arg, prov) == [tool |-> tool, arg |-> arg, prov |-> prov, sent |-> <<>>]
Calls ==
    {Call("web_search", q, p) : q \in Queries, p \in Providers(SearchResponses)}
    \cup {Call("web_extract", u, p) : u \in UrlsArgs, p \in Providers(ContentResponses)}
    \cup {Call("web_crawl", u, p) : u \in UrlArgs, p \in Providers(ContentResponses)}

\* ---- the adapter runs: the pending call is carried out
CallWebSearch ==
    /\ tcall.tool = "web_search"
    /\ tout = NoOut
    /\ tcall' = [tcall EXCEPT !.sent = WebSearch(tcall.arg, tcall.prov).sent]
    /\ tout' = WebSearch(tcall.arg, tcall.prov).out
    /\ UNCHANGED <<invokeVars, cliVars, other>>

CallWebExtract ==
    /\ tcall.tool = "web_extract"
    /\ tout = NoOut
    /\ tcall' = [tcall EXCEPT !.sent = WebExtract(tcall.arg, tcall.prov).sent]
    /\ tout' = WebExtract(tcall.arg, tcall.prov).out
    /\ UNCHANGED <<invokeVars, cliVars, other>>

CallWebCrawl ==
    /\ tcall.tool = "web_crawl"
    /\ tout = NoOut
    /\ tcall' = [tcall EXCEPT !.sent = WebCrawl(tcall.arg, tcall.prov).sent]
    /\ tout' = WebCrawl(tcall.arg, tcall.prov).out
    /\ UNCHANGED <<invokeVars, cliVars, other>>

NextTools ==
    \/ CallWebSearch
    \/ CallWebExtract
    \/ CallWebCrawl

\* the adapters are called by the runtime, outside any run of invoke()
InitTools ==
    /\ payload = [form |-> "dict", query |-> QStr("q")]
    /\ stream = <<>>
    /\ messages = <<>>
    /\ session_id = "default"
    /\ pc = "Idle"
    /\ pos = 0
    /\ tools_used = <<>>
    /\ notices = <<>>
    /\ formatted_content = NoneVal
    /\ CliIdle
    /\ other = NoSession
    /\ tcall \in Calls
    /\ tout = NoOut

SpecTools == InitTools /\ [][NextTools]_vars

\* C9: every call of web_search, web_extract or web_crawl, whatever the
\* argument and whether the provider answers or fails, gives back a text;
\* no exception leaves the adapter.
C9_AdaptersReturnText == tout.kind # "raised"


\* ---------------------------------------------------------------------
\* toolUse entries that share a correlation id

\* the successful toolResult items of the user messages
SuccessResultPos ==
    {ij \in UNION {{<<i, j>> : j \in DOMAIN messages[i].content} : i \in DOMAIN messages} :
        /\ messages[ij[1]].role = "user"
        /\ ItemAt(ij).kind = "toolResult"
        /\ ItemAt(ij).status = "success"}
\* the toolUse items of the assistant messages that carry the id
UsePos(id) ==
    {ij \in UNION {{<<i, j>> : j \in DOMAIN messages[i].content} : i \in DOMAIN messages} :
        /\ messages[ij[1]].role = "assistant"
        /\ ItemAt(ij).kind = "toolUse"
        /\ ItemAt(ij).id = id}
\* scan order: message by message, item by item
Before(a, b) == a[1] < b[1] \/ (a[1] = b[1] /\ a[2] < b[2])
FirstUse(id) == CHOOSE a \in UsePos(id) : \A b \in UsePos(id) : a = b \/ Before(a, b)
\* the session completed with one successful toolResult whose id is
\* carried by two or more toolUse entries
SharedIdCase(r) ==
    /\ pc = "Completed"
    /\ SuccessResultPos = {r}
    /\ Cardinality(UsePos(ItemAt(r).id)) >= 2

\* C11 as stated: when toolUse entries share a correlation id, the
\* toolResult with that id counts as a formatting-tool result if and only
\* if the first toolUse with that id in scan order is named
\* format_research_response.
C11_FirstUseDecides ==
    \A r \in SuccessResultPos :
        SharedIdCase(r) =>
            (formatted_content # NoneVal
                <=> ItemAt(FirstUse(ItemAt(r).id)).name = FormatTool)

\* C11 amended: when toolUse entries share a correlation id, the
\* toolResult with that id counts as a formatting-tool result if and only
\* if some toolUse with that id, at any place in scan order, is named
\* format_research_response; formatted_content is then its payload text.
C11_AnyUseDecides ==
    \A r \in SuccessResultPos :
        SharedIdCase(r) =>
            /\ formatted_content # NoneVal
                  <=> \E u \in UsePos(ItemAt(r).id) : ItemAt(u).name = FormatTool
            /\ formatted_content # NoneVal
                  => formatted_content = PayloadText(ItemAt(r).payload)
\* a later toolUse with the shared id names the formatting tool, the
\* first one does not, and the result was taken as a formatting result
C11_Witness ==
    \E r \in SuccessResultPos :
        /\ SharedIdCase(r)
        /\ ItemAt(FirstUse(ItemAt(r).id)).name # FormatTool
        /\ \E u \in UsePos(ItemAt(r).id) : ItemAt(u).name = FormatTool
        /\ formatted_content = PayloadText(ItemAt(r).payload)
        /\ LastNotice.formatted_response = formatted_content


\* ---------------------------------------------------------------------
\* empty and null provider responses

\* the fixed text of the formatter behind an adapter
FixedText(tool) ==
    CASE tool = "web_search" -> Text(<<Lit("No search results found.")>>)
      [] tool = "web_extract" -> Text(<<Lit("No extract results found.")>>)
      [] tool = "web_crawl" -> Text(<<Lit("No crawl results found.")>>)
\* the adapter reached its formatter: the argument was usable and the
\* provider answered
FormatterReached ==
    /\ tout # NoOut
    /\ ~tcall.prov.raises
    /\ tcall.tool = "web_extract" => ~CleaningRaises(tcall.arg)
    /\ tcall.tool = "web_crawl" => tcall.arg.t = "str"
\* the answer is null, has no results field, or has an empty results list
EmptyResponse(resp) ==
    \/ resp.t = "none"
    \/ resp.results.s = "absent"
    \/ resp.results.s = "list" /\ resp.results.l = <<>>
\* a dict whose results list is there and empty
EmptyResultsList(resp) ==
    resp.t = "dict" /\ resp.results.s = "list" /\ resp.results.l = <<>>

\* C12 as stated: for a null response, a response without a results field
\* and a response whose results list is empty, each of the three
\* formatters returns its fixed "no results" text and nothing else.
C12_FixedTextWhenEmpty ==
    (FormatterReached /\ EmptyResponse(tcall.prov.resp))
        => tout = FixedText(tcall.tool)

\* C12 amended: the search and crawl formatters return their fixed text
\* in the three cases; the extract formatter returns its fixed text for a
\* null response and for one without a results field, and for a dict with
\* an empty results list it returns a text without result blocks that
\* lists the failed extractions, if any, and ends with the response time.
C12_FixedTextUnlessExtractList ==
    (FormatterReached /\ EmptyResponse(tcall.prov.resp)) =>
        IF tcall.tool = "web_extract" /\ EmptyResultsList(tcall.prov.resp)
        THEN /\ tout.kind = "text"
             /\ tout # FixedText("web_extract")
             /\ Len(tout.text) >= 4
             /\ Head(tout.text) = Lit("\n")
             /\ SubSeq(tout.text, Len(tout.text) - 2, Len(tout.text))
                   = <<Lit("\nResponse time: "),
                       Num(IF tcall.prov.resp.time < 0 THEN 0 ELSE tcall.prov.resp.time),
                       Lit(" seconds")>>
             /\ Lit("\nEXTRACT RESULT ") \notin Range(tout.text)
             /\ (Lit("\nFAILED EXTRACTIONS:\n") \in Range(tout.text))
                   <=> tcall.prov.resp.failed # <<>>
        ELSE tout = FixedText(tcall.tool)
\* the extract formatter was given a dict with an empty results list and
\* failed extractions, and listed them
C12_Witness ==
    /\ FormatterReached
    /\ tcall.tool = "web_extract"
    /\ EmptyResultsList(tcall.prov.resp)
    /\ tcall.prov.resp.failed # <<>>
    /\ Lit("\nFAILED EXTRACTIONS:\n") \in Range(tout.text)


\* ---------------------------------------------------------------------
\* truncation of long content

\* the threshold of the formatter behind an adapter
Limit(tool) == IF tool = "web_extract" THEN ExtractLimit ELSE CrawlLimit
\* the documents the extract or crawl formatter went through in this call
FormattedDocs ==
    IF /\ FormatterReached
       /\ tcall.prov.resp.results.s = "list"
       /\ \/ tcall.tool = "web_extract" /\ tcall.prov.resp.t = "dict"
          \/ tcall.tool = "web_crawl" /\ tcall.prov.resp.t \in {"dict", "list"}
    THEN tcall.prov.resp.results.l
    ELSE <<>>
\* the Content line the claim describes for a raw_content
ContentLine(raw, limit) ==
    <<Lit("Content: ")>>
    \o (IF Len(raw) > limit
        THEN <<Txt(SubSeq(raw, 1, limit)), Lit("...")>>
        ELSE <<Txt(raw)>>)
    \o <<Lit("\n")>>
\* the rule for one raw_content: its Content line is in the output, and
\* (the documents of one call being alike) an ellipsis is there only for
\* a text over the threshold
CutRule(raw) ==
    /\ tout.kind = "text"
    /\ HasSub(tout.text, ContentLine(raw, Limit(tcall.tool)))
    /\ (Lit("...") \in Range(tout.text)) <=> Len(raw) > Limit(tcall.tool)

UrlInputs ==
    IF tout # NoOut /\ tcall.tool \in {"web_crawl", "web_extract"} /\ tcall.sent # <<>>
    THEN [i \in DOMAIN tcall.sent |->
            IF tcall.arg.t = "str" THEN tcall.arg.s ELSE tcall.arg.l[i].s]
    ELSE <<>>
\* a string with its scheme, https:// being put in front of one without
Schemed(u) == IF StartsWith(u, HTTP) \/ StartsWith(u, HTTPS) THEN u ELSE HTTPS \o u
\* blanks that JSON allows around the colon and before the fragment
Blanks == {<<>>, <<" ">>}
\* the quoted values of the fragments
UrlValues == {<<"a">>, <<"a", ".", "b">>, HTTP \o <<"a">>}
\* what the claim wants the provider to be handed for an input
Wanted(u) ==
    IF \E lead \in Blanks, sp1 \in Blanks, sp2 \in Blanks, val \in UrlValues :
            u = lead \o JsonUrl(sp1, sp2, val)
    THEN Schemed(CHOOSE val \in UrlValues :
                    \E lead \in Blanks, sp1 \in Blanks, sp2 \in Blanks :
                        u = lead \o JsonUrl(sp1, sp2, val))
    ELSE Schemed(u)

\* C14: every URL handed to the provider by web_crawl or web_extract starts
\* with http:// or https://; a JSON fragment with a "url" key and a
\* non-empty quoted value is replaced by that value, https:// is put in
\* front of a string without scheme, a string with a scheme is passed
\* unchanged, and normalizing the result again changes nothing.
C14_ProviderUrl ==
    \A i \in DOMAIN UrlInputs :
        /\ StartsWith(tcall.sent[i], HTTP) \/ StartsWith(tcall.sent[i], HTTPS)
        /\ StartsWith(UrlInputs[i], <<"{">>) \/ StartsWith(UrlInputs[i], <<" ", "{">>)
              \/ tcall.sent[i] = Schemed(UrlInputs[i])
        /\ tcall.sent[i] = Wanted(UrlInputs[i])
        /\ NormalizeUrl(tcall.sent[i]) = tcall.sent[i]


\* ---------------------------------------------------------------------
\* several results of the formatting tool

\* the last successful result of the formatting tool in history order
LastFormatResult ==
    CHOOSE a \in FormatResultPos : \A b \in FormatResultPos : a = b \/ Before(b, a)

\* C16: when the history holds several successful toolResults that each
\* correlate to a format_research_response toolUse, the completed notice's
\* formatted_response is the payload text of the last of them in history
\* order, not of the first.
C16_LastFormatResultWins ==
    (pc = "Completed" /\ Cardinality(FormatResultPos) >= 2)
        => LastNotice.formatted_response = PayloadText(ItemAt(LastFormatResult).payload)


\* ---------------------------------------------------------------------
\* the order of the notices

\* C17: the notices of a session appear in state-machine order: starting
\* is the first notice of every session that got past validation and
\* stands nowhere else, agent_created comes right after it and nowhere
\* else, every thinking and tool_execution notice stands after
\* agent_created and before the terminal notice, and completed is emitted
\* only once the loop has ended (at the first Result event or at the end
\* of the stream) and the history scan has run.
C17_NoticeOrder ==
    /\ (notices # <<>> /\ ~Rejected(payload)) => notices[1].status = "starting"
    /\ \A k \in DOMAIN notices :
          /\ notices[k].status = "starting" => k = 1
          /\ notices[k].status = "agent_created"
                => k = 2 /\ notices[1].status = "starting"
          /\ notices[k].status \in {"thinking", "tool_execution"}
                => /\ k > 2
                   /\ notices[2].status = "agent_created"
                   /\ \A j \in 1..k : ~Terminal(notices[j])
          /\ notices[k].status = "completed"
                => /\ k = Len(notices)
                   /\ k > 2
                   /\ notices[2].status = "agent_created"
                   /\ pc = "Completed"
                   /\ pos = LoopEnd
                   /\ formatted_content = FormattedContent(messages)
\* a session that thought, ran a tool, was stopped by a Result event
\* before the end of its stream and completed
C17_Witness ==
    /\ pc = "Completed"
    /\ LastNotice.status = "completed"
    /\ NoticesWith("thinking") # {}
    /\ NoticesWith("tool_execution") # {}
    /\ pos < Len(stream)


\* ============================================================ endpoint scripts
\* scripts/create_endpoint.py and scripts/update_endpoint.py: one process,
\* one command line, at most one operation

\* Python truthiness of an option value: a string, or None when not given
Given(v) == v \notin {NoneVal, ""}

\* ---- --tag values, as sequences of characters
\* '=' in tag
HasEq(tag) == "=" \in Range(tag)
\* tag.split('=', 1)
EqAt(tag) == Min({i \in DOMAIN tag : tag[i] = "="})
TagKey(tag) == SubSeq(tag, 1, EqAt(tag) - 1)
TagValue(tag) == SubSeq(tag, EqAt(tag) + 1, Len(tag))
\* the loop over args.tag stops the script at a tag without '='
BadTag(tags) == \E i \in DOMAIN tags : ~HasEq(tags[i])
\* the dict built by the loop, as <<key, value>> pairs in insertion order:
\* a key keeps the place of its first tag and the value of its last
TagPairs(tags) ==
    LET first == {i \in DOMAIN tags :
                    \A j \in 1..(i - 1) : TagKey(tags[j]) # TagKey(tags[i])}
        lastOf(i) == CHOOSE j \in DOMAIN tags :
                        /\ TagKey(tags[j]) = TagKey(tags[i])
                        /\ \A k \in DOMAIN tags :
                              TagKey(tags[k]) = TagKey(tags[i]) => k <= j
        nth(n) == CHOOSE i \in first : Cardinality({j \in first : j < i}) = n - 1
    IN  [n \in 1..Cardinality(first) |->
            <<TagKey(tags[nth(n)]), TagValue(tags[lastOf(nth(n))])>>]

\* ---- what is printed
Line(kind, text, value) == [kind |-> kind, text |-> text, value |-> value]
Info(text, value) == Line("info", text, value)
Usage(text) == Line("usage", text, "")
Diagnostic(text, value) == Line("diagnostic", text, value)
\* an exception nothing catches: the interpreter prints the traceback
Traceback(exc) == Line("traceback", "Traceback (most recent call last)", exc)

\* one print of a response field: response[key] when default is Raised,
\* response.get(key, default) otherwise
Field(keys, label, key, default) ==
    [label |-> label, present |-> key \in keys, key |-> key, default |-> default]
\* a print without a field
Fixed(label) == [label |-> label, present |-> FALSE, key |-> "", default |-> ""]
\* the prints in order, up to the first KeyError
RECURSIVE PrintFields(_)
PrintFields(fs) ==
    IF fs = <<>> THEN [lines |-> <<>>, raised |-> FALSE]
    ELSE IF ~Head(fs).present /\ Head(fs).default = Raised
         THEN [lines |-> <<>>, raised |-> TRUE]
         ELSE LET rest == PrintFields(Tail(fs))
              IN  [lines |-> <<Info(Head(fs).label,
                                    IF Head(fs).present THEN Head(fs).key
                                    ELSE Head(fs).default)>> \o rest.lines,
                   raised |-> rest.raised]

\* ---- the control plane
\* a request: the API and the keyword arguments (Absent: not passed,
\* tags <<>>: not passed)
Request(api, id, name, version, description, tags) ==
    [api |-> api, agentRuntimeId |-> id, name |-> name,
     agentRuntimeVersion |-> version, description |-> description, tags |-> tags]
\* an answer: the keys of the response dict and its agentRuntimeEndpoints
\* (s tells whether the key is there, l holds the keys of each endpoint)
Reply(keys, endpoints) == [keys |-> keys, endpoints |-> endpoints]
Endpoints(l) == [s |-> "list", l |-> l]
EndpointsAbsent == [s |-> "absent", l |-> <<>>]
\* boto3.client(...) gives a client or raises; the call raises or answers
ControlPlane(client, raises, reply) ==
    [client |-> client, raises |-> raises, reply |-> reply]

\* an except clause: the class it names, what it prints, whether {e} is shown
Handler(class, text, shows) == [class |-> class, text |-> text, shows |-> shows]
\* variant: a clause catches only the class it names
CatchesExact(class, exc) == class = exc
\* `except class`: Exception is the base of every class raised here
Catches(class, exc) == class = exc \/ class = "Exception"

\* how a run of the process ends from here on
Exit(lines, calls, code) == [printed |-> lines, api_calls |-> calls, exit_code |-> code]

\* the exception exc is raised inside the try block: the first clause that
\* catches it prints and calls sys.exit(1)
Caught(lines, calls, handlers, exc) ==
    LET hs == {i \in DOMAIN handlers : Catches(handlers[i].class, exc)}
    IN  IF hs = {} THEN Exit(lines \o <<Traceback(exc)>>, calls, 1)
        ELSE LET h == handlers[Min(hs)]
             IN  Exit(lines \o <<Diagnostic(h.text, IF h.shows THEN exc ELSE "")>>,
                      calls, 1)

\* an operation: prints before the call, the one request, the prints
\* after it, the except clauses
Operation(before, request, after, handlers) ==
    [before |-> before, request |-> request, after |-> after, handlers |-> handlers]

\* the body shared by the functions: the client is built outside the try
\* block, the call and the prints are inside it; a function that returns
\* lets the process end with status 0
RunOperation(f, cp) ==
    IF cp.client = "fails" THEN Exit(<<Traceback("boto3.client")>>, <<>>, 1)
    ELSE IF cp.raises # "none"
         THEN Caught(f.before, <<f.request>>, f.handlers, cp.raises)
         ELSE LET p == PrintFields(f.after)
              IN  IF p.raised
                  THEN Caught(f.before \o p.lines, <<f.request>>, f.handlers, "KeyError")
                  ELSE Exit(f.before \o p.lines, <<f.request>>, 0)

\* ---- create_endpoint.py
create_endpoint(a, reply) ==
    Operation(
        <<Info("Creating endpoint ", a.name),
          Info("  Target Version: ", IF Given(a.version) THEN a.version ELSE "Latest")>>,
        Request("create_agent_runtime_endpoint", a.runtime_id, a.name,
                IF Given(a.version) THEN a.version ELSE Absent,
                IF Given(a.description) THEN a.description ELSE Absent,
                TagPairs(a.tag)),
        <<Fixed("Endpoint created successfully!"),
          Field(reply.keys, "  Endpoint Name: ", "endpointName", Raised),
          Field(reply.keys, "  Status: ", "status", Raised),
          Field(reply.keys, "  Target Version: ", "targetVersion", "Latest"),
          Field(reply.keys, "  Endpoint ARN: ", "agentRuntimeEndpointArn", Raised),
          Field(reply.keys, "  Created At: ", "createdAt", Raised)>>,
        <<Handler("ConflictException", "Error: Endpoint already exists", FALSE),
          Handler("ResourceNotFoundException", "Error: Agent runtime not found", FALSE),
          Handler("ValidationException", "Validation Error: ", TRUE),
          Handler("Exception", "Error: ", TRUE)>>)

delete_endpoint(a, reply) ==
    Operation(
        <<Info("Deleting endpoint ", a.delete)>>,
        Request("delete_agent_runtime_endpoint", a.runtime_id, a.delete,
                Absent, Absent, <<>>),
        <<Fixed("Endpoint deletion initiated"),
          Field(reply.keys, "  Status: ", "status", "DELETING")>>,
        <<Handler("ResourceNotFoundException", "Error: Endpoint not found", FALSE),
          Handler("Exception", "Error: ", TRUE)>>)

get_endpoint(a, reply) ==
    Operation(
        <<>>,
        Request("get_agent_runtime_endpoint", a.runtime_id, a.get,
                Absent, Absent, <<>>),
        <<Fixed("Endpoint Details:"), Fixed("----"),
          Field(reply.keys, "  Name: ", "name", Raised),
          Field(reply.keys, "  Status: ", "status", Raised),
          Field(reply.keys, "  Live Version: ", "liveVersion", "N/A"),
          Field(reply.keys, "  Target Version: ", "targetVersion", "N/A"),
          Field(reply.keys, "  Description: ", "description", "N/A"),
          Field(reply.keys, "  Created At: ", "createdAt", Raised),
          Field(reply.keys, "  Last Updated: ", "lastUpdatedAt", Raised),
          Field(reply.keys, "  Endpoint ARN: ", "agentRuntimeEndpointArn", Raised),
          Fixed("----")>>,
        <<Handler("ResourceNotFoundException", "Error: Endpoint not found", FALSE),
          Handler("Exception", "Error: ", TRUE)>>)

\* the prints of the loop over the endpoints, here with the description
\* line of create_endpoint.py
RECURSIVE ListedWithDescription(_)
ListedWithDescription(l) ==
    IF l = <<>> THEN <<>>
    ELSE <<Field(Head(l), "  Name: ", "name", Raised),
           Field(Head(l), "  Status: ", "status", Raised),
           Field(Head(l), "  Live Version: ", "liveVersion", "N/A"),
           Field(Head(l), "  Target Version: ", "targetVersion", "N/A")>>
         \o (IF "description" \in Head(l)
             THEN <<Field(Head(l), "  Description: ", "description", Raised)>>
             ELSE <<>>)
         \o <<Fixed("----")>>
         \o ListedWithDescription(Tail(l))

list_endpoints(a, reply) ==
    Operation(
        <<>>,
        Request("list_agent_runtime_endpoints", a.runtime_id, Absent,
                Absent, Absent, <<>>),
        IF reply.endpoints.l = <<>>
        THEN <<Fixed("No endpoints found for "), Fixed(a.runtime_id)>>
        ELSE <<Fixed("Endpoints for "), Fixed("====")>>
             \o ListedWithDescription(reply.endpoints.l),
        <<Handler("Exception", "Error listing endpoints: ", TRUE)>>)

\* the if/elif chain of the script: the function called, or "usage"
CreateScriptOperation(a) ==
    IF a.list THEN "list_endpoints"
    ELSE IF Given(a.get) THEN "get_endpoint"
    ELSE IF Given(a.delete) THEN "delete_endpoint"
    ELSE IF Given(a.name) THEN "create_endpoint"
    ELSE "usage"

\* ---- update_endpoint.py
update_endpoint(a, reply) ==
    Operation(
        <<Info("Updating endpoint ", a.endpoint_name)>>,
        Request("update_agent_runtime_endpoint", a.runtime_id, a.endpoint_name,
                a.version, Absent, <<>>),
        <<Fixed("Endpoint update initiated successfully!"),
          Field(reply.keys, "  Status: ", "status", Raised),
          Field(reply.keys, "  Live Version: ", "liveVersion", "N/A"),
          Field(reply.keys, "  Target Version: ", "targetVersion", "N/A"),
          Field(reply.keys, "  Last Updated: ", "lastUpdatedAt", Raised)>>,
        <<Handler("ResourceNotFoundException", "Error: Agent runtime or endpoint not found", FALSE),
          Handler("ValidationException", "Validation Error: ", TRUE),
          Handler("Exception", "Error: ", TRUE)>>)

RECURSIVE Listed(_)
Listed(l) ==
    IF l = <<>> THEN <<>>
    ELSE <<Field(Head(l), "  Name: ", "name", Raised),
           Field(Head(l), "  Status: ", "status", Raised),
           Field(Head(l), "  Live Version: ", "liveVersion", "N/A"),
           Field(Head(l), "  Target Version: ", "targetVersion", "N/A"),
           Fixed("----")>>
         \o Listed(Tail(l))

\* list_endpoints of update_endpoint.py: the header is printed for an
\* empty list as well
update_list_endpoints(a, reply) ==
    Operation(
        <<>>,
        Request("list_agent_runtime_endpoints", a.runtime_id, Absent,
                Absent, Absent, <<>>),
        <<Fixed("Endpoints for "), Fixed("----")>> \o Listed(reply.endpoints.l),
        <<Handler("Exception", "Error listing endpoints: ", TRUE)>>)

UpdateScriptOperation(a) ==
    IF a.list THEN "list_endpoints"
    ELSE IF Given(a.endpoint_name) /\ Given(a.version) THEN "update_endpoint"
    ELSE "usage"

\* ---- the steps of a script
\* the process ends with what a function did
Ends(r) ==
    /\ printed' = printed \o r.printed
    /\ api_calls' = api_calls \o r.api_calls
    /\ exit_code' = r.exit_code
    /\ cli_pc' = "Exited"
    /\ UNCHANGED <<args, plane>>
    /\ UNCHANGED <<invokeVars, adapterVars, other>>

\* the module body of create_endpoint.py after parse_args()
MainCreateScript ==
    /\ cli_pc = "Parsed"
    /\ args.script = "create_endpoint"
    /\ LET op == CreateScriptOperation(args)
       IN  IF op = "usage"
           THEN /\ printed' = printed \o <<Usage("Error: Specify --name to create, --list to list, --get to view, or --delete to remove an endpoint"),
                                          Usage("usage: create_endpoint.py")>>
                /\ exit_code' = 1
                /\ cli_pc' = "Exited"
           ELSE IF op = "create_endpoint" /\ BadTag(args.tag)
           THEN /\ printed' = Append(printed, Usage("Error: Invalid tag format. Use KEY=VALUE"))
                /\ exit_code' = 1
                /\ cli_pc' = "Exited"
           ELSE /\ cli_pc' = op
                /\ UNCHANGED <<printed, exit_code>>
    /\ UNCHANGED <<args, plane, api_calls>>
    /\ UNCHANGED <<invokeVars, adapterVars, other>>

CreateEndpoint ==
    /\ cli_pc = "create_endpoint"
    /\ Ends(RunOperation(create_endpoint(args, plane.reply), plane))

DeleteEndpoint ==
    /\ cli_pc = "delete_endpoint"
    /\ Ends(RunOperation(delete_endpoint(args, plane.reply), plane))

GetEndpoint ==
    /\ cli_pc = "get_endpoint"
    /\ Ends(RunOperation(get_endpoint(args, plane.reply), plane))

ListEndpoints ==
    /\ cli_pc = "list_endpoints"
    /\ args.script = "create_endpoint"
    /\ Ends(RunOperation(list_endpoints(args, plane.reply), plane))

\* the module body of update_endpoint.py after parse_args()
MainUpdateScript ==
    /\ cli_pc = "Parsed"
    /\ args.script = "update_endpoint"
    /\ LET op == UpdateScriptOperation(args)
       IN  IF op = "usage"
           THEN /\ printed' = printed \o <<Usage("Error: Either use --list or provide both --endpoint-name and --version"),
                                          Usage("usage: update_endpoint.py")>>
                /\ exit_code' = 1
                /\ cli_pc' = "Exited"
           ELSE /\ cli_pc' = op
                /\ UNCHANGED <<printed, exit_code>>
    /\ UNCHANGED <<args, plane, api_calls>>
    /\ UNCHANGED <<invokeVars, adapterVars, other>>

UpdateEndpoint ==
    /\ cli_pc = "update_endpoint"
    /\ Ends(RunOperation(update_endpoint(args, plane.reply), plane))

UpdateListEndpoints ==
    /\ cli_pc = "list_endpoints"
    /\ args.script = "update_endpoint"
    /\ Ends(RunOperation(update_list_endpoints(args, plane.reply), plane))

NextCli ==
    \/ MainCreateScript
    \/ CreateEndpoint
    \/ DeleteEndpoint
    \/ GetEndpoint
    \/ ListEndpoints
    \/ MainUpdateScript
    \/ UpdateEndpoint
    \/ UpdateListEndpoints

\* ---- the command lines and control planes of the runs
Args(script, list, get, delete, name, endpoint_name, version, description, tag) ==
    [script |-> script, runtime_id |-> "rt", list |-> list, get |-> get,
     delete |-> delete, name |-> name, endpoint_name |-> endpoint_name,
     version |-> version, description |-> description, tag |-> tag]
TagLists ==
    {<<>>, <<<<"k", "=", "v">>>>, <<<<"k", "v">>>>,
     <<<<"k", "=", "v">>, <<"k">>>>,
     <<<<"k", "=", "v">>, <<"j", "=">>, <<"k", "=", "w", "=", "x">>>>}
CreateArgs ==
    {Args("create_endpoint", l, g, d, n, NoneVal, v, ds, t) :
        l \in BOOLEAN, g \in {NoneVal, "dev"}, d \in {NoneVal, "dev"},
        n \in {NoneVal, "", "dev"}, v \in {NoneVal, "3"},
        ds \in {NoneVal, "text"}, t \in TagLists}
UpdateArgs ==
    {Args("update_endpoint", l, NoneVal, NoneVal, NoneVal, e, v, NoneVal, <<>>) :
        l \in BOOLEAN, e \in {NoneVal, "dev"}, v \in {NoneVal, "", "4"}}
ResponseKeys ==
    {"endpointName", "name", "status", "liveVersion", "targetVersion", "description",
     "agentRuntimeEndpointArn", "createdAt", "lastUpdatedAt"}
Replies ==
    {Reply(ResponseKeys, EndpointsAbsent),
     Reply(ResponseKeys \ {"status", "targetVersion"}, EndpointsAbsent),
     Reply({}, Endpoints(<<>>)),
     Reply({}, Endpoints(<<{"name", "status", "description"}>>)),
     Reply({}, Endpoints(<<{"name", "status", "liveVersion"}, {"status"}>>))}
ApiErrors ==
    {"ConflictException", "ResourceNotFoundException", "ValidationException", "ClientError"}
ControlPlanes ==
    {ControlPlane("fails", "none", Reply({}, EndpointsAbsent))}
    \cup {ControlPlane("ok", e, Reply({}, EndpointsAbsent)) : e \in ApiErrors}
    \cup {ControlPlane("ok", "none", r) : r \in Replies}

\* a script has been started and its command line parsed; no session of
\* invoke() and no tool adapter runs in this process
InitCli ==
    /\ payload = [form |-> "dict", query |-> QStr("q")]
    /\ stream = <<>>
    /\ messages = <<>>
    /\ session_id = "default"
    /\ pc = "Idle"
    /\ pos = 0
    /\ tools_used = <<>>
    /\ notices = <<>>
    /\ formatted_content = NoneVal
    /\ tcall = NoCall
    /\ tout = NoOut
    /\ other = NoSession
    /\ args \in CreateArgs \cup UpdateArgs
    /\ plane \in ControlPlanes
    /\ cli_pc = "Parsed"
    /\ api_calls = <<>>
    /\ printed = <<>>
    /\ exit_code = -1

SpecCli == InitCli /\ [][NextCli]_vars

\* ---------------------------------------------------------------------
\* the endpoint scripts: one call, failures, the empty list

\* the operation the command line asks for
AskedOperation ==
    IF args.script = "create_endpoint" THEN CreateScriptOperation(args)
    ELSE UpdateScriptOperation(args)
\* the API that belongs to it
ApiOf(op) ==
    CASE op = "create_endpoint" -> "create_agent_runtime_endpoint"
      [] op = "update_endpoint" -> "update_agent_runtime_endpoint"
      [] op = "get_endpoint" -> "get_agent_runtime_endpoint"
      [] op = "delete_endpoint" -> "delete_agent_runtime_endpoint"
      [] op = "list_endpoints" -> "list_agent_runtime_endpoints"
      [] OTHER -> "none"
\* the function of the operation was entered and got its client
OperationRan ==
    /\ cli_pc = "Exited"
    /\ AskedOperation # "usage"
    /\ ~(AskedOperation = "create_endpoint" /\ BadTag(args.tag))
    /\ plane.client = "ok"

\* C15: each of create, update, get, list and delete makes one call to
\* the control plane, that of its own API; every exception raised by the
\* call ends the process with a non-zero exit status after a diagnostic
\* printed by the script; a list call that returns no endpoints ends the
\* process with status 0.
C15_OneCallThenExit ==
    /\ Len(api_calls) <= 1
    /\ exit_code # -1 <=> cli_pc = "Exited"
    /\ OperationRan
          => /\ Len(api_calls) = 1
             /\ api_calls[1].api = ApiOf(AskedOperation)
    /\ (OperationRan /\ plane.raises # "none")
          => /\ exit_code \notin {0, -1}
             /\ printed # <<>>
             /\ printed[Len(printed)].kind = "diagnostic"
    /\ (OperationRan /\ AskedOperation = "list_endpoints"
            /\ plane.raises = "none" /\ plane.reply.endpoints.l = <<>>)
          => exit_code = 0
\* the call raised an exception that only the last clause catches, and
\* the process ended with a diagnostic and status 1
C15_Witness ==
    /\ OperationRan
    /\ plane.raises = "ClientError"
    /\ Len(api_calls) = 1
    /\ exit_code = 1
    /\ printed[Len(printed)].kind = "diagnostic"


\* ========================================================== two sessions
\* A second call of invoke() runs in the same process. Each call has its
\* own generator frame: `other` holds the locals of the second one. The
\* event loop resumes one generator at a time, at its yields and awaits.

OtherReject ==
    /\ other.pc = "Idle"
    /\ Rejected(other.payload)
    /\ other' = [other EXCEPT
                    !.notices = Append(@, IF other.payload.form = "dict"
                                          THEN MissingQueryNotice
                                          ELSE InvalidPayloadNotice),
                    !.pc = "Returned"]
    /\ UNCHANGED <<invokeVars, adapterVars, cliVars>>

OtherStart ==
    /\ other.pc = "Idle"
    /\ ~Rejected(other.payload)
    /\ other' = [other EXCEPT
                    !.notices = Append(@, StartingNotice(other.session_id)),
                    !.pc = "Starting"]
    /\ UNCHANGED <<invokeVars, adapterVars, cliVars>>

OtherCreateAgent ==
    /\ other.pc = "Starting"
    /\ other' = [other EXCEPT
                    !.notices = Append(@, AgentCreatedNotice),
                    !.pc = "AgentReady"]
    /\ UNCHANGED <<invokeVars, adapterVars, cliVars>>

OtherCreateAgentFails ==
    /\ other.pc = "Starting"
    /\ other' = [other EXCEPT !.pc = "Escaped"]
    /\ UNCHANGED <<invokeVars, adapterVars, cliVars>>

OtherBeginStream ==
    /\ other.pc = "AgentReady"
    /\ other' = [other EXCEPT !.tools_used = <<>>, !.pc = "Streaming"]
    /\ UNCHANGED <<invokeVars, adapterVars, cliVars>>

\* variant: the ledger is one module-level list, that of the first session
OtherConsumeEventSharedLedger ==
    /\ other.pc = "Streaming"
    /\ other.pos < Len(other.stream)
    /\ LET ev == other.stream[other.pos + 1]
       IN  /\ other' = [other EXCEPT
                           !.notices = @ \o EventNotices(tools_used, ev),
                           !.pc = AfterEvent(ev),
                           !.pos = @ + 1]
           /\ tools_used' = RecordTool(tools_used, ev)
    /\ UNCHANGED <<payload, session_id, stream, messages, pc, pos, notices,
                   formatted_content>>
    /\ UNCHANGED <<adapterVars, cliVars>>

\* one pass of the second session's loop body: tools_used is the local of
\* its own frame
OtherConsumeEvent ==
    /\ other.pc = "Streaming"
    /\ other.pos < Len(other.stream)
    /\ LET ev == other.stream[other.pos + 1]
       IN  other' = [other EXCEPT
                        !.notices = @ \o EventNotices(other.tools_used, ev),
                        !.tools_used = RecordTool(@, ev),
                        !.pc = AfterEvent(ev),
                        !.pos = @ + 1]
    /\ UNCHANGED <<invokeVars, adapterVars, cliVars>>

OtherStreamEnds ==
    /\ other.pc = "Streaming"
    /\ other.pos = Len(other.stream)
    /\ other' = [other EXCEPT !.pc = "Finalizing"]
    /\ UNCHANGED <<invokeVars, adapterVars, cliVars>>

OtherStreamRaises ==
    /\ other.pc = "Streaming"
    /\ other' = [other EXCEPT
                    !.notices = Append(@, ErrorNotice("stream failure")),
                    !.pc = "Failed"]
    /\ UNCHANGED <<invokeVars, adapterVars, cliVars>>

OtherFinalize ==
    /\ other.pc = "Finalizing"
    /\ LET fin == Finalization(other.messages, other.tools_used, other.session_id)
       IN  other' = [other EXCEPT
                        !.notices = @ \o fin,
                        !.pc = IF fin[Len(fin)].status = "completed"
                               THEN "Completed" ELSE "Failed",
                        !.formatted_content =
                            IF FormattedContent(other.messages) = Raised THEN @
                            ELSE FormattedContent(other.messages)]
    /\ UNCHANGED <<invokeVars, adapterVars, cliVars>>

NextTwo ==
    \/ Reject
    \/ Start
    \/ CreateAgent
    \/ CreateAgentFails
    \/ BeginStream
    \/ ConsumeEvent
    \/ StreamEnds
    \/ StreamRaises
    \/ Finalize
    \/ OtherReject
    \/ OtherStart
    \/ OtherCreateAgent
    \/ OtherCreateAgentFails
    \/ OtherBeginStream
    \/ OtherConsumeEvent
    \/ OtherStreamEnds
    \/ OtherStreamRaises
    \/ OtherFinalize

\* ---- the two sessions' inputs
TwoEvents ==
    {[data |-> "d", tool |-> "web_search", result |-> FALSE],
     [data |-> Absent, tool |-> "web_crawl", result |-> FALSE],
     [data |-> Absent, tool |-> Absent, result |-> TRUE]}
TwoStreams == SeqsUpTo(TwoEvents, MaxTwoEvents)
TwoPayloads == {[form |-> "dict", query |-> QStr("q")], [form |-> "dict", query |-> QNone]}
TwoHistories ==
    {<<Msg("assistant", <<TextItem("u")>>)>>,
     <<Msg("assistant", <<ToolUse("t1", FormatTool)>>),
       Msg("user", <<ToolResult("t1", "success", <<"p1">>)>>),
       Msg("assistant", <<TextItem("a")>>)>>}
\* the frame of a call of invoke() that has not run yet
Session(p, sid, st, m) ==
    [payload |-> p, session_id |-> sid, stream |-> st, messages |-> m,
     pc |-> "Idle", pos |-> 0, tools_used |-> <<>>, notices |-> <<>>,
     formatted_content |-> NoneVal]

InitTwo ==
    /\ payload \in TwoPayloads
    /\ stream \in TwoStreams
    /\ messages \in TwoHistories
    /\ session_id = "default"
    /\ pc = "Idle"
    /\ pos = 0
    /\ tools_used = <<>>
    /\ notices = <<>>
    /\ formatted_content = NoneVal
    /\ tcall = NoCall
    /\ tout = NoOut
    /\ CliIdle
    /\ other \in {Session(p, "s2", st, m) :
                    p \in TwoPayloads, st \in TwoStreams, m \in TwoHistories}

SpecTwo == InitTwo /\ [][NextTwo]_vars

\* ---------------------------------------------------------------------
\* two interleaved sessions

\* the first session's locals, as a frame
Mine ==
    [payload |-> payload, session_id |-> session_id, stream |-> stream,
     messages |-> messages, pc |-> pc, pos |-> pos, tools_used |-> tools_used,
     notices |-> notices, formatted_content |-> formatted_content]
\* the ledger after the first k events of a stream, and the notices of
\* those events
RECURSIVE LedgerOf(_, _)
LedgerOf(st, k) == IF k = 0 THEN <<>> ELSE RecordTool(LedgerOf(st, k - 1), st[k])
RECURSIVE EventNoticesOf(_, _)
EventNoticesOf(st, k) ==
    IF k = 0 THEN <<>>
    ELSE EventNoticesOf(st, k - 1) \o EventNotices(LedgerOf(st, k - 1), st[k])
\* the tool names of a stream
NamesOf(st) == {ToolName(st[i]) : i \in {j \in DOMAIN st : st[j].tool # Absent}}
IsEventNotice(n) == n.status \in {"thinking", "tool_execution"}
\* the frame s holds what its own stream and history give, and no tool
\* name of the stream t that its own stream does not have
OwnOnly(s, t) ==
    /\ s.tools_used = LedgerOf(s.stream, s.pos)
    /\ SelectSeq(s.notices, IsEventNotice) = EventNoticesOf(s.stream, s.pos)
    /\ s.pc = "Completed"
          => s.notices[Len(s.notices)]
               = CompletedNotice(Resolve(FormattedContent(s.messages),
                                         FinalResponse(s.messages)),
                                 LedgerOf(s.stream, s.pos),
                                 Len(LedgerOf(s.stream, s.pos)),
                                 s.session_id)
    /\ \A n \in NamesOf(t) \ NamesOf(s.stream) :
          /\ n \notin Range(s.tools_used)
          /\ \A k \in DOMAIN s.notices :
                n # s.notices[k].tool /\ n \notin Range(s.notices[k].tools_used)

\* C18: when two sessions of invoke() run interleaved, the tools_used
\* ledger, the tool_count values and the final answer of each depend only
\* on its own event stream and history, and no tool name seen only by one
\* session appears in the other's ledger or notices.
C18_SessionsApart ==
    other.pc # "None" => OwnOnly(Mine, other.stream) /\ OwnOnly(other, stream)
\* both sessions are inside their loops at once, each with a ledger the
\* other does not have
C18_Witness ==
    /\ other.pc = "Streaming"
    /\ pc = "Streaming"
    /\ tools_used = <<"web_search">>
    /\ other.tools_used = <<"web_crawl">>
    /\ pos < Len(stream)
    /\ other.pos < Len(other.stream)

====
